---- MODULE Spec2Model ----
(***************************************************************************)
(* Transcripto: the map-reduce summarization orchestrator.                 *)
(*                                                                         *)
(* Two orchestrators are modelled side by side, TranscriptSummarizer       *)
(* (src/src/core/summarizer.py, a four-node workflow graph) and            *)
(* SimpleTranscriptSummarizer (src/src/core/simple_summarizer.py, one      *)
(* function), over the same OllamaService client                           *)
(* (src/src/services/ollama_service.py).                                   *)
(*                                                                         *)
(* Representation.  A Python str is a sequence of one-character strings,   *)
(* so that len(), strip(), split() and join() are computed and not         *)
(* assumed.  Exception messages are TLA+ strings (\o concatenates them).   *)
(* An Optional value is a sequence of length 0 (None) or 1 (a value).      *)
(* Wall-clock readings (start_time, end_time, processing_time) are left    *)
(* out: no branch of the code reads them.                                  *)
(*                                                                         *)
(* The specifications.  Spec is one summarize_text call on a fresh        *)
(* instance, over every text up to MaxTextLen.  SpecApp is one instance    *)
(* serving up to MaxCalls calls one after the other through all of its     *)
(* entry points (summarize_text, the VTT wrappers, the UI handler, the     *)
(* health check), over a few transcripts, with the backend's answers kept  *)
(* in a log; FairSpecApp adds the fairness of the program's own steps and  *)
(* of the backend's answers.  SpecShared is the fan-out of two calls made  *)
(* at once, from two threads, on the instance the web UI shares, and       *)
(* SpecUi two requests of the web UI made at once, followed through the    *)
(* settings they write and read.  SpecService is the asynchronous          *)
(* interface of OllamaService called in any order.  SpecPair runs          *)
(* TranscriptSummarizer and then SimpleTranscriptSummarizer on one text    *)
(* against a backend that answers both alike.                              *)
(***************************************************************************)
EXTENDS Integers, Sequences, FiniteSets, TLC

VARIABLES
    impl,        \* which orchestrator was constructed: "graph" or "simple"
    chunker,     \* self.chunker: [chunk_size, overlap_size]
    pc,          \* position of the summarize_text call
    text,        \* the argument of summarize_text
    state,       \* SummarizationState threaded through the workflow nodes
    locals,      \* local variables of SimpleTranscriptSummarizer.summarize_text
    session,     \* OllamaService.session: "None", "open" or "closed"
    tasks,       \* the coroutines handed to asyncio.gather, in prompt order
    completion,  \* indices of tasks in the order in which they finished
    sent,        \* every generation request that reached the backend, in order
    raised,      \* the exception caught by an except clause of the call, if any
    result,      \* the value summarize_text returned
    calls,       \* how many summarization calls this instance has been given
    session_id,  \* which ClientSession self.session refers to (0: none yet)
    opened_by,   \* for every ClientSession created, the call that created it
    parsed,      \* what the VTT parser did, when the call came through a wrapper
    health,      \* the map check_service_health returned
    log,         \* the backend's answers, when the run keeps them (history)
    incoming,    \* the state record the last workflow node received, as it
                 \* reads now: it shares its processing_stats dict with the
                 \* node that received it
    closed_by,   \* per ClientSession created, the call whose __aexit__ closed
                 \* it, 0 while it is open
    threads,     \* the calls running concurrently on the shared instance, one
                 \* per worker thread of the web UI: [pc, prompts, tasks]
    temperature, \* self.config.temperature
    requests,    \* the requests of the web UI running concurrently, one per
                 \* worker thread: what each was given and what it used
    graph_run    \* when the two summarizers are run on one input: what the
                 \* run of TranscriptSummarizer sent, met and returned

vars == <<impl, chunker, pc, text, state, locals, session, tasks, completion,
          sent, raised, result, calls, session_id, opened_by, parsed, health, log,
          incoming, closed_by, threads, temperature, requests, graph_run>>

(***************************************************************************)
(* Bounds of the model.                                                    *)
(***************************************************************************)
MaxTextLen == 4

\* how many calls one summarizer instance is given, one after the other
MaxCalls == 2
MaxRequests == 3

Alphabet == {"a", ".", " "}

Texts == UNION {[1..n -> Alphabet] : n \in 0..MaxTextLen}

\* (chunk_size, chunk_overlap) pairs the summarizer may be constructed with;
\* <<2, 2>> and <<0, 0>> are the invalid ones.
ChunkerSettings == {<<2, 0>>, <<3, 1>>, <<2, 2>>, <<0, 0>>}

(***************************************************************************)
(* Optional values and Python truthiness.                                  *)
(***************************************************************************)
None == <<>>

Some(x) == <<x>>

IsNone(o) == Len(o) = 0

Get(o) == o[1]

\* bool(o) for an Optional[list] or Optional[str]: None and the empty value
\* are both falsy.
Truthy(o) == ~IsNone(o) /\ Len(Get(o)) > 0

(***************************************************************************)
(* str methods.                                                            *)
(***************************************************************************)
Whitespace == {" ", "\n"}

RECURSIVE LStrip(_)
LStrip(s) ==
    IF s = <<>> THEN s
    ELSE IF Head(s) \in Whitespace THEN LStrip(Tail(s)) ELSE s

RECURSIVE RStrip(_)
RStrip(s) ==
    IF s = <<>> THEN s
    ELSE IF s[Len(s)] \in Whitespace THEN RStrip(SubSeq(s, 1, Len(s) - 1)) ELSE s

\* str.strip()
Strip(s) == RStrip(LStrip(s))

\* len(s.split()): the number of maximal runs of non-whitespace characters
WordCount(s) ==
    Cardinality({i \in 1..Len(s) :
        /\ s[i] \notin Whitespace
        /\ (i = 1 \/ s[i - 1] \in Whitespace)})

\* the separator of "\n\n".join(...)
Separator == <<"\n", "\n">>

RECURSIVE Join(_)
Join(parts) ==
    IF Len(parts) = 0 THEN <<>>
    ELSE IF Len(parts) = 1 THEN parts[1]
    ELSE parts[1] \o Separator \o Join(Tail(parts))

SetMax(S) == CHOOSE x \in S : \A y \in S : y <= x

SetMin(S) == CHOOSE x \in S : \A y \in S : x <= y

(***************************************************************************)
(* The chunker (core/chunker.py, TextChunker.chunk_by_sentences).  Chunks  *)
(* are contiguous slices of the text.  A sentence ends at a "." that is    *)
(* followed by more content, or at the end of the text.  Sentences are     *)
(* accumulated greedily while the chunk stays within max_size; the next    *)
(* chunk starts by re-including the trailing overlap characters of the     *)
(* previous one; a sentence that cannot fit is emitted whole.              *)
(***************************************************************************)
SentenceEnds(t) ==
    {i \in 1..Len(t) :
        \/ i = Len(t)
        \/ t[i] = "." /\ Strip(SubSeq(t, i + 1, Len(t))) # <<>>}

\* Faulty variant of the chunk record: indices counted from 1.
TextChunk_one_based(t, k, s, e) ==
    [content |-> SubSeq(t, s + 1, e), index |-> k + 1,
     start_offset |-> s, end_offset |-> e]

TextChunk(t, k, s, e) ==
    [content |-> SubSeq(t, s + 1, e), index |-> k,
     start_offset |-> s, end_offset |-> e]

\* Faulty variant of the accumulation: a sentence that cannot fit is cut
\* at max_size.
RECURSIVE Accumulate_truncating(_, _, _, _, _, _)
Accumulate_truncating(t, max, ov, s, f, k) ==
    LET E == {e \in SentenceEnds(t) : e > f}
        fitS == {e \in E : e - s <= max}
        fitF == {e \in E : e - f <= max}
        start == IF fitS # {} THEN s ELSE f
        end == IF fitS # {} THEN SetMax(fitS)
               ELSE IF fitF # {} THEN SetMax(fitF)
               ELSE f + max
        c == TextChunk(t, k, start, end)
    IN  IF end = Len(t) THEN <<c>>
        ELSE <<c>> \o Accumulate_truncating(t, max, ov, SetMax({end - ov, start}), end, k + 1)

\* s: offset where the chunk's content starts (overlap included);
\* f: offset of the first sentence not yet in any chunk; k: next index.
RECURSIVE Accumulate(_, _, _, _, _, _)
Accumulate(t, max, ov, s, f, k) ==
    LET E == {e \in SentenceEnds(t) : e > f}
        fitS == {e \in E : e - s <= max}
        fitF == {e \in E : e - f <= max}
        start == IF fitS # {} THEN s ELSE f
        end == IF fitS # {} THEN SetMax(fitS)
               ELSE IF fitF # {} THEN SetMax(fitF)
               ELSE SetMin(E)
        c == TextChunk(t, k, start, end)
    IN  IF end = Len(t) THEN <<c>>
        ELSE <<c>> \o Accumulate(t, max, ov, SetMax({end - ov, start}), end, k + 1)

\* An exception is its class and its str().
Exc(type, msg) == [type |-> type, msg |-> msg]

NoExc == Exc("", "")

\* Faulty variant of the chunker: a text shorter than max_size is dropped
\* as too small to be a chunk.
chunk_by_sentences_min_size(t, max, ov) ==
    IF max <= 0 \/ ov < 0 \/ ov >= max
    THEN [raises |-> TRUE,
          exc |-> Exc("ConfigurationError", "overlap must be smaller than chunk size"),
          chunks |-> <<>>]
    ELSE IF Strip(t) = <<>> \/ Len(t) < max
    THEN [raises |-> FALSE, exc |-> NoExc, chunks |-> <<>>]
    ELSE [raises |-> FALSE, exc |-> NoExc, chunks |-> Accumulate(t, max, ov, 0, 0, 0)]

\* [raises, exc, chunks]: the call either raises exc or returns chunks.
chunk_by_sentences(t, max, ov) ==
    IF max <= 0 \/ ov < 0 \/ ov >= max
    THEN [raises |-> TRUE,
          exc |-> Exc("ConfigurationError", "overlap must be smaller than chunk size"),
          chunks |-> <<>>]
    ELSE IF Strip(t) = <<>>
    THEN [raises |-> FALSE, exc |-> NoExc, chunks |-> <<>>]
    ELSE [raises |-> FALSE, exc |-> NoExc, chunks |-> Accumulate(t, max, ov, 0, 0, 0)]

(***************************************************************************)
(* Prompt builders.  The fixed wording of each f-string is named by the    *)
(* template field; the other fields are the values the f-string inserts.   *)
(***************************************************************************)
\* Faulty variant of the chunk prompt: the position is stated from zero.
create_chunk_summary_prompt_zero_based(chunk_text, chunk_num, total_chunks) ==
    [template |-> "chunk_summary", chunk_num |-> chunk_num - 1,
     total_chunks |-> total_chunks, text |-> chunk_text]

create_chunk_summary_prompt(chunk_text, chunk_num, total_chunks) ==
    [template |-> "chunk_summary", chunk_num |-> chunk_num,
     total_chunks |-> total_chunks, text |-> chunk_text]

create_final_summary_prompt(combined_summaries) ==
    [template |-> "final_summary", chunk_num |-> 0, total_chunks |-> 0,
     text |-> combined_summaries]

(***************************************************************************)
(* OllamaService.  What the backend does with one request is an Outcome:   *)
(* a parsed JSON body (with or without the "response" field), or one of    *)
(* the failures.                                                           *)
(***************************************************************************)
NoBody == [has_response |-> FALSE, response |-> <<>>]

Bodies ==
    {NoBody,
     [has_response |-> TRUE, response |-> <<>>],
     [has_response |-> TRUE, response |-> <<" ">>],
     [has_response |-> TRUE, response |-> <<" ", "s", "\n">>]}

FailKinds == {"network", "status", "parse", "timeout"}

Outcomes ==
    [ok : {TRUE}, body : Bodies, fail : {""}]
        \cup [ok : {FALSE}, body : {NoBody}, fail : FailKinds]

\* OllamaResponse(content=result.get("response", ""), ...)
OllamaResponse(body) ==
    [content |-> IF body.has_response THEN body.response ELSE <<>>]

\* The exception generate_sync raises for a failure kind: every requests
\* exception is re-raised as Exception with the communication prefix, a JSON
\* decoding error with the parsing prefix.
SyncError(kind) ==
    CASE kind = "network" ->
            Exc("Exception", "Error communicating with Ollama: connection refused")
      [] kind = "status" ->
            Exc("Exception", "Error communicating with Ollama: 500 Server Error")
      [] kind = "timeout" ->
            Exc("Exception", "Error communicating with Ollama: read timed out")
      [] kind = "parse" ->
            Exc("Exception", "Error parsing Ollama response: Expecting value")

\* The exception generate_async raises: aiohttp.ClientError and
\* json.JSONDecodeError are re-raised as Exception with a prefix; the
\* session's total timeout raises asyncio.TimeoutError, which neither clause
\* catches and whose str() is empty.
AsyncError(kind) ==
    CASE kind = "network" ->
            Exc("Exception", "Error communicating with Ollama: connection refused")
      [] kind = "status" ->
            Exc("Exception", "Error communicating with Ollama: 500 Server Error")
      [] kind = "timeout" ->
            Exc("TimeoutError", "")
      [] kind = "parse" ->
            Exc("Exception", "Error parsing Ollama response: Expecting value")

\* Faulty variant of generate_sync: a failure is answered with an empty
\* response instead of an exception.
generate_sync_lenient(outcome) ==
    [raises |-> FALSE, exc |-> NoExc,
     response |-> OllamaResponse(IF outcome.ok THEN outcome.body ELSE NoBody)]

\* [raises, exc, response]
generate_sync(outcome) ==
    IF outcome.ok
    THEN [raises |-> FALSE, exc |-> NoExc, response |-> OllamaResponse(outcome.body)]
    ELSE [raises |-> TRUE, exc |-> SyncError(outcome.fail),
          response |-> OllamaResponse(NoBody)]

\* Faulty variant of generate_async: the content is read with
\* result["response"], so that a body without the field is a KeyError.
generate_async_requires_field(task, outcome) ==
    IF outcome.ok /\ outcome.body.has_response
    THEN [task EXCEPT !.st = "done", !.response = OllamaResponse(outcome.body)]
    ELSE IF outcome.ok
    THEN [task EXCEPT !.st = "failed", !.exc = Exc("KeyError", "'response'")]
    ELSE [task EXCEPT !.st = "failed", !.exc = AsyncError(outcome.fail)]

\* the task of one generate_async coroutine once the backend has answered
generate_async(task, outcome) ==
    IF outcome.ok
    THEN [task EXCEPT !.st = "done", !.response = OllamaResponse(outcome.body)]
    ELSE [task EXCEPT !.st = "failed", !.exc = AsyncError(outcome.fail)]

\* Faulty variant of __aenter__: a session that exists already is kept.
aenter_reuse(sid, created, call) ==
    IF sid # 0
    THEN [id |-> sid, opened_by |-> created]
    ELSE [id |-> Len(created) + 1, opened_by |-> Append(created, call)]

\* __aenter__: a new aiohttp.ClientSession is created, whatever self.session
\* was, and self.session refers to it: [id, opened_by]
aenter(sid, created, call) ==
    [id |-> Len(created) + 1, opened_by |-> Append(created, call)]

\* __aexit__: `if self.session: await self.session.close()`; self.session
\* keeps referring to the closed session
aexit(status) == IF status = "None" THEN status ELSE "closed"

\* __aexit__ seen from the sessions: the session self.session refers to at
\* that moment is closed, by whichever call runs __aexit__; closing a closed
\* session changes nothing.
close_session(closed, sid, created, call) ==
    IF sid = 0 \/ closed[sid] # 0
    THEN closed
    ELSE [closed EXCEPT ![sid] = call]

NewTask(prompt) ==
    [prompt |-> prompt, st |-> "inflight",
     response |-> OllamaResponse(NoBody), exc |-> NoExc]

\* Faulty variant of gather: results collected as the tasks finish.
gather_in_completion_order(ts, order) ==
    IF \E i \in 1..Len(ts) : ts[i].st = "failed"
    THEN [status |-> "raise",
          exc |-> ts[order[SetMin({j \in 1..Len(order) : ts[order[j]].st = "failed"})]].exc,
          value |-> <<>>]
    ELSE IF \A i \in 1..Len(ts) : ts[i].st = "done"
    THEN [status |-> "return", exc |-> NoExc,
          value |-> [j \in 1..Len(ts) |-> ts[order[j]].response]]
    ELSE [status |-> "pending", exc |-> NoExc, value |-> <<>>]

\* Faulty variant of gather: failures are dropped and the responses of the
\* tasks that succeeded are returned.
gather_partial(ts, order) ==
    LET succeeded == SelectSeq(ts, LAMBDA t : t.st = "done")
    IN  IF \A i \in 1..Len(ts) : ts[i].st \in {"done", "failed"}
        THEN [status |-> "return", exc |-> NoExc,
              value |-> [j \in 1..Len(succeeded) |-> succeeded[j].response]]
        ELSE [status |-> "pending", exc |-> NoExc, value |-> <<>>]

\* Faulty variant of gather: the awaiter is resumed as soon as one task is
\* done (asyncio.wait with FIRST_COMPLETED).
gather_first_completed(ts, order) ==
    IF \E i \in 1..Len(ts) : ts[i].st = "failed"
    THEN [status |-> "raise",
          exc |-> ts[order[SetMin({j \in 1..Len(order) : ts[order[j]].st = "failed"})]].exc,
          value |-> <<>>]
    ELSE IF \E i \in 1..Len(ts) : ts[i].st = "done"
    THEN [status |-> "return", exc |-> NoExc,
          value |-> [i \in 1..Len(ts) |-> ts[i].response]]
    ELSE [status |-> "pending", exc |-> NoExc, value |-> <<>>]

\* asyncio.gather(*tasks) without return_exceptions: the first exception
\* (in completion order) is raised to the awaiter; otherwise, once every
\* task is done, the results are returned in the order of the tasks.
gather(ts, order) ==
    LET failed == {i \in 1..Len(ts) : ts[i].st = "failed"}
        first == SetMin({j \in 1..Len(order) : order[j] \in failed})
    IN  IF failed # {}
        THEN [status |-> "raise", exc |-> ts[order[first]].exc, value |-> <<>>]
        ELSE IF \A i \in 1..Len(ts) : ts[i].st = "done"
        THEN [status |-> "return", exc |-> NoExc,
              value |-> [i \in 1..Len(ts) |-> ts[i].response]]
        ELSE [status |-> "pending", exc |-> NoExc, value |-> <<>>]

(***************************************************************************)
(* Records of the orchestrators.                                           *)
(***************************************************************************)
\* initial_state of TranscriptSummarizer.summarize_text
InitialState(t) ==
    [original_text |-> t, chunks |-> None, chunk_summaries |-> None,
     final_summary |-> <<>>, processing_stats |-> None, error |-> None]

\* the locals of SimpleTranscriptSummarizer.summarize_text before they are bound
InitialLocals == [chunks |-> <<>>, chunk_summaries |-> <<>>]

\* original_length / summary_length, kept exact as a fraction
Ratio(a, b) == [num |-> a, den |-> b]

\* the float 0.0
Zero == Ratio(0, 1)

\* SummarizationResult and SimpleSummarizationResult have the same fields
SummarizationResult(summary, original_length, summary_length, chunks_processed, ratio, error) ==
    [summary |-> summary, original_length |-> original_length,
     summary_length |-> summary_length, chunks_processed |-> chunks_processed,
     compression_ratio |-> ratio, error |-> error]

\* d.get(k, default)
DictGet(d, k, default) == IF k \in DOMAIN d THEN d[k] ELSE default

\* "No content to summarize."
NoContentMarker ==
    <<"N", "o", " ", "c", "o", "n", "t", "e", "n", "t", " ", "t", "o", " ",
      "s", "u", "m", "m", "a", "r", "i", "z", "e", ".">>

\* Faulty variant of the except clause: only the re-raised Exception is caught.
except_Exception_narrow(e) == e.type = "Exception"

\* `except Exception as e`: every exception class the model raises derives
\* from Exception.
except_Exception(e) ==
    e.type \in {"Exception", "TimeoutError", "ConfigurationError",
                "AttributeError", "TypeError", "ValueError"}

NoneTypeError(what) == Exc("AttributeError", "'NoneType' object has no attribute " \o what)

(***************************************************************************)
(* The nodes of the TranscriptSummarizer workflow, as functions of the     *)
(* incoming state.  A node that can raise inside its try block returns     *)
(* [raises, exc, state]; the except clause is applied by the action.       *)
(***************************************************************************)
parse_input(st) ==
    IF Strip(st.original_text) = <<>>
    THEN [st EXCEPT !.error = Some("Empty input text")]
    ELSE [st EXCEPT !.processing_stats =
            Some([original_length |-> Len(st.original_text),
                  original_words |-> WordCount(st.original_text)])]

\* Faulty variant of chunk_text's guard: the node runs whatever the state.
chunk_text_never_skips(st) == FALSE

\* Faulty variant of chunk_text's guard: the node looks for chunks, which it
\* is about to make, instead of the error.
chunk_text_skips_on_chunks(st) == Truthy(st.chunks)

\* processing_stats = state.get("processing_stats", {}) followed by
\* processing_stats.update(...) or processing_stats[...] = ...: the dict the
\* incoming record st refers to is the one the node updates, so once the try
\* block r got that far, st reads with the updated statistics.
updated_in_place(st, r) ==
    IF r.raises THEN st ELSE [st EXCEPT !.processing_stats = r.state.processing_stats]

\* `if state.get("error"): return state`
chunk_text_skips(st) == Truthy(st.error)

\* the try block of chunk_text
chunk_text_try(st, ck) ==
    LET r == chunk_by_sentences(st.original_text, ck.chunk_size, ck.overlap_size)
        base == [chunks_created |-> Len(r.chunks),
                 chunking_strategy |-> "sentence-based"] @@ Get(st.processing_stats)
        stats == IF Len(r.chunks) = 1 THEN [single_chunk |-> TRUE] @@ base ELSE base
    IN  IF r.raises
        THEN [raises |-> TRUE, exc |-> r.exc, state |-> st]
        ELSE IF IsNone(st.processing_stats)
        THEN [raises |-> TRUE, exc |-> NoneTypeError("'update'"), state |-> st]
        ELSE [raises |-> FALSE, exc |-> NoExc,
              state |-> [st EXCEPT !.chunks = Some(r.chunks),
                                   !.processing_stats = Some(stats)]]

\* Faulty variant of a node's except clause: the state is returned as it was.
node_except_swallow(st, prefix, e) == st

\* the except clause of a node: {**state, "error": f"{prefix}{str(e)}"}
node_except(st, prefix, e) == [st EXCEPT !.error = Some(prefix \o e.msg)]

\* `if state.get("error") or not state.get("chunks"): return state`
summarize_chunks_skips(st) == Truthy(st.error) \/ ~Truthy(st.chunks)

\* Faulty variant of the single-chunk test.
is_single_chunk_wrong_count(chunks) == Len(chunks) = 0

\* `if len(chunks) == 1`
is_single_chunk(chunks) == Len(chunks) = 1

\* Faulty variant of the prompt loop: the last chunk gets no prompt.
chunk_prompts_drop_last(chunks) ==
    [i \in 1..(Len(chunks) - 1) |->
        create_chunk_summary_prompt(chunks[i].content, i, Len(chunks))]

\* the prompts built for the chunks, in chunk order (chunk_num is i + 1 for
\* the 0-based position i)
chunk_prompts(chunks) ==
    [i \in 1..Len(chunks) |->
        create_chunk_summary_prompt(chunks[i].content, i, Len(chunks))]

\* [response.content.strip() for response in responses]
stripped_contents(responses) ==
    [i \in 1..Len(responses) |-> Strip(responses[i].content)]

\* `if state.get("error") or not state.get("chunk_summaries"): return state`
create_final_summary_skips(st) == Truthy(st.error) \/ ~Truthy(st.chunk_summaries)

\* the prompt of the reduction request
final_prompt(chunk_summaries) == create_final_summary_prompt(Join(chunk_summaries))

\* Faulty variant of the ratio: the division is made whatever the summary
\* (a zero denominator stands for the ZeroDivisionError).
compression_ratio_unguarded(original_length, final_summary) ==
    Ratio(original_length, Len(final_summary))

\* len(original_text) / len(final_summary) if final_summary else 0
compression_ratio(original_length, final_summary) ==
    IF final_summary # <<>> THEN Ratio(original_length, Len(final_summary)) ELSE Zero

\* the try block of create_final_summary, given what generate_sync did
create_final_summary_try(st, outcome) ==
    LET r == generate_sync(outcome)
        final_summary == Strip(r.response.content)
        stats == [final_summary_length |-> Len(final_summary),
                  final_summary_words |-> WordCount(final_summary),
                  compression_ratio |->
                      compression_ratio(Len(st.original_text), final_summary)]
                 @@ Get(st.processing_stats)
    IN  IF r.raises
        THEN [raises |-> TRUE, exc |-> r.exc, state |-> st]
        ELSE IF IsNone(st.processing_stats)
        THEN [raises |-> TRUE, exc |-> NoneTypeError("'get'"), state |-> st]
        ELSE [raises |-> FALSE, exc |-> NoExc,
              state |-> [st EXCEPT !.final_summary = final_summary,
                                   !.processing_stats = Some(stats)]]

\* `if result_state.get("error")`
result_is_error(st) == Truthy(st.error)

\* the result object TranscriptSummarizer.summarize_text builds from the
\* final state: [raises, exc, value]
summarize_text_result(st, t) ==
    IF result_is_error(st)
    THEN [raises |-> FALSE, exc |-> NoExc,
          value |-> SummarizationResult(<<>>, Len(t), 0, 0, Zero, st.error)]
    ELSE IF IsNone(st.processing_stats)
    THEN [raises |-> TRUE, exc |-> NoneTypeError("'get'"),
          value |-> SummarizationResult(<<>>, 0, 0, 0, Zero, None)]
    ELSE LET stats == Get(st.processing_stats)
         IN  [raises |-> FALSE, exc |-> NoExc,
              value |-> SummarizationResult(
                  st.final_summary,
                  DictGet(stats, "original_length", 0),
                  DictGet(stats, "final_summary_length", 0),
                  DictGet(stats, "chunks_summarized", 0),
                  DictGet(stats, "compression_ratio", Zero),
                  None)]

(***************************************************************************)
(* The results SimpleTranscriptSummarizer.summarize_text builds.           *)
(***************************************************************************)
\* `if not chunks: return SimpleSummarizationResult(...)`
simple_no_chunks_result(t) ==
    SummarizationResult(NoContentMarker, Len(t), 0, 0, Zero,
                        Some("No chunks created from input text"))

\* the result of the success path
simple_success_result(t, final_summary, chunks_processed) ==
    SummarizationResult(final_summary, Len(t), Len(final_summary), chunks_processed,
                        compression_ratio(Len(t), final_summary), None)

\* the result built by `except Exception as e`
simple_except_result(t, e) ==
    SummarizationResult(<<>>, Len(t), 0, 0, Zero, Some(e.msg))

(***************************************************************************)
(* The VTT parser (core/vtt_parser.py) and the wrappers around it.  The    *)
(* parser is an external collaborator: all that is modelled of a VTT       *)
(* input is whether the parser accepts it and the transcript it yields.    *)
(***************************************************************************)
\* the transcripts the parser may yield
Transcripts == {<<>>, <<"a">>, <<"a", ".", "a">>, <<".", "a", ".", "a">>}

VttInputs ==
    [malformed : {TRUE}, transcript : {<<>>}]
        \cup [malformed : {FALSE}, transcript : Transcripts]

\* parse_content / parse_file followed by get_full_transcript:
\* [raises, exc, text]
parse_vtt(vtt) ==
    IF vtt.malformed
    THEN [raises |-> TRUE, exc |-> Exc("ValueError", "Invalid VTT file"), text |-> <<>>]
    ELSE [raises |-> FALSE, exc |-> NoExc, text |-> vtt.transcript]

\* Faulty variant of the wrappers' except clause: the no-content summary is
\* returned with the error.
vtt_except_result_marker(e) ==
    SummarizationResult(NoContentMarker, 0, 0, 0, Zero, Some(e.msg))

\* the result summarize_vtt_file / summarize_vtt_content build in their
\* except clause
vtt_except_result(e) == SummarizationResult(<<>>, 0, 0, 0, Zero, Some(e.msg))

(***************************************************************************)
(* The health check.  Each probe is one HTTP request; what the backend     *)
(* does with it is a reply.  A dict is the set of its (key, value) pairs.  *)
(***************************************************************************)
\* replies to GET /api/tags: 200 with a model list (the model listed or
\* not), 200 with a body that is not JSON, another status, no connection
TagsReplies ==
    [kind : {"ok"}, listed : BOOLEAN]
        \cup [kind : {"parse", "status", "network"}, listed : {FALSE}]

\* replies to POST /api/show
ShowReplies ==
    [kind : {"ok"}, info : {{}, {<<"family", "llama">>}}]
        \cup [kind : {"status", "network"}, info : {{}}]

\* test_connection: status 200, whatever the body; False on any exception
test_connection(reply) == reply.kind \in {"ok", "parse"}

\* check_model_availability: False on any exception or other status
check_model_availability(reply) == reply.kind = "ok" /\ reply.listed

\* get_model_info: the parsed body, or a dict with the key "error"
get_model_info(reply) ==
    IF reply.kind = "ok" THEN reply.info
    ELSE {<<"error", "Could not get model info: " \o reply.kind>>}

\* Faulty variant of the health check: the model probes are made whatever
\* the connection probe returned.
check_service_health_unsequenced(tags1, tags2, show) ==
    [ollama_connection |-> test_connection(tags1),
     model_available |-> check_model_availability(tags2),
     model_info |-> get_model_info(show),
     error |-> None,
     probes |-> <<"test_connection", "check_model_availability", "get_model_info">>]

\* check_service_health: the returned map, with the probes it made (probes
\* is not a key of the map).  No probe lets an exception out, so the except
\* clause of check_service_health never has one to record.
check_service_health(tags1, tags2, show) ==
    IF test_connection(tags1)
    THEN [ollama_connection |-> TRUE,
          model_available |-> check_model_availability(tags2),
          model_info |-> get_model_info(show),
          error |-> None,
          probes |-> <<"test_connection", "check_model_availability", "get_model_info">>]
    ELSE [ollama_connection |-> FALSE, model_available |-> FALSE, model_info |-> {},
          error |-> None, probes |-> <<"test_connection">>]

(***************************************************************************)
(* The state machine.                                                      *)
(***************************************************************************)
\* the worker threads of the web UI that call the one shared summarizer
Threads == {1, 2}

\* Config.temperature: Field(default=0.3); temperatures are kept as written
DefaultTemperature == "0.3"

\* what the sliders of the web UI may hold when a request is made: chunk
\* size, chunk overlap (the settings of ChunkerSettings) and temperature
UiInputs ==
    {[chunk_size |-> 2, chunk_overlap |-> 0, temperature |-> "0.3"],
     [chunk_size |-> 3, chunk_overlap |-> 1, temperature |-> "0.7"],
     [chunk_size |-> 2, chunk_overlap |-> 2, temperature |-> "0.3"],
     [chunk_size |-> 0, chunk_overlap |-> 0, temperature |-> "0.7"]}

\* TextChunker(chunk_size=chunk_size, overlap_size=chunk_overlap)
UiChunker(u) == [chunk_size |-> u.chunk_size, overlap_size |-> u.chunk_overlap]

\* a request of the web UI that has not been made yet
IdleRequest ==
    [pc |-> "idle",
     args |-> [chunk_size |-> 0, chunk_overlap |-> 0, temperature |-> ""],
     transcript |-> <<>>, chunker_used |-> <<>>, temperatures |-> <<>>]

\* a thread that has not called yet
IdleThread == [pc |-> "idle", prompts |-> <<>>, tasks |-> <<>>]

Init ==
    /\ impl \in {"graph", "simple"}
    /\ chunker \in {[chunk_size |-> c[1], overlap_size |-> c[2]] : c \in ChunkerSettings}
    /\ pc = "idle"
    /\ text = <<>>
    /\ state = InitialState(<<>>)
    /\ locals = InitialLocals
    /\ session = "None"
    /\ tasks = <<>>
    /\ completion = <<>>
    /\ sent = <<>>
    /\ raised = None
    /\ result = None
    /\ calls = 0
    /\ session_id = 0
    /\ opened_by = <<>>
    /\ parsed = None
    /\ health = None
    /\ log = None
    /\ incoming = InitialState(<<>>)
    /\ closed_by = <<>>
    /\ threads = [c \in Threads |-> IdleThread]
    /\ temperature = DefaultTemperature
    /\ requests = [r \in Threads |-> IdleRequest]
    /\ graph_run = None

\* one generation request as the backend sees it; sid is the ClientSession
\* it was posted on, 0 for requests.post
Request(api, prompt, sid) == [api |-> api, prompt |-> prompt, session |-> sid]

\* the log with one more answer, when a log is kept
Keep(l, api, outcome) ==
    IF IsNone(l) THEN l
    ELSE Some(Append(Get(l), [api |-> api, outcome |-> outcome]))

\* summarize_text(text) is called: the graph variant builds initial_state and
\* invokes the workflow, the simple variant enters its try block.
summarize_text_called(t) ==
    /\ pc = "idle"
    /\ text' = t
    /\ state' = IF impl = "graph" THEN InitialState(t) ELSE state
    /\ pc' = IF impl = "graph" THEN "parse_input" ELSE "simple_chunk"
    /\ calls' = calls + 1
    /\ UNCHANGED <<impl, locals, session, tasks, completion, sent, raised, result,
                   session_id, opened_by, health, log>>
    /\ incoming' = state'
    /\ UNCHANGED <<closed_by, threads>>
    /\ UNCHANGED requests
    /\ UNCHANGED graph_run

\* a caller hands its text to summarize_text directly
SummarizeText(t) ==
    /\ summarize_text_called(t)
    /\ UNCHANGED <<chunker, parsed, temperature>>

\* Faulty variant of the end of a node: after an exception the node is run
\* again.
NodeEnds_retry(r, prefix, next) ==
    /\ state' = (IF r.raises THEN state ELSE r.state)
    /\ raised' = (IF r.raises THEN Some(r.exc) ELSE raised)
    /\ pc' = (IF r.raises THEN pc ELSE next)

\* How a workflow node that ran its try block ends: with the new state, with
\* the except clause's state, or with the exception leaving the workflow.
NodeEnds(r, prefix, next) ==
    IF ~r.raises
    THEN /\ state' = r.state
         /\ raised' = raised
         /\ pc' = next
    ELSE IF except_Exception(r.exc)
    THEN /\ state' = node_except(state, prefix, r.exc)
         /\ raised' = Some(r.exc)
         /\ pc' = next
    ELSE /\ state' = state
         /\ raised' = Some(r.exc)
         /\ pc' = "raised"

ParseInput ==
    /\ pc = "parse_input"
    /\ state' = parse_input(state)
    /\ pc' = "chunk_text"
    /\ UNCHANGED <<impl, chunker, text, locals, session, tasks, completion, sent,
                   raised, result>>
    /\ UNCHANGED <<calls, session_id, opened_by, parsed, health, log>>
    /\ incoming' = state
    /\ UNCHANGED <<closed_by, threads>>
    /\ UNCHANGED <<temperature, requests>>
    /\ UNCHANGED graph_run

ChunkText ==
    /\ pc = "chunk_text"
    /\ IF chunk_text_skips(state)
       THEN /\ pc' = "summarize_chunks"
            /\ UNCHANGED <<state, raised>>
       ELSE NodeEnds(chunk_text_try(state, chunker), "Error chunking text: ",
                     "summarize_chunks")
    /\ UNCHANGED <<impl, chunker, text, locals, session, tasks, completion, sent,
                   result>>
    /\ UNCHANGED <<calls, session_id, opened_by, parsed, health, log>>
    /\ incoming' = IF chunk_text_skips(state) THEN state
                   ELSE updated_in_place(state, chunk_text_try(state, chunker))
    /\ UNCHANGED <<closed_by, threads>>
    /\ UNCHANGED <<temperature, requests>>
    /\ UNCHANGED graph_run

\* Config.max_concurrent_requests: Field(default=3); no code reads it
max_concurrent_requests == 3

\* Faulty variant of the fan-out: a semaphore of two permits, so that only
\* the first two requests are posted and the others wait for a permit.
Dispatch_throttled(prompts) ==
    LET s == aenter(session_id, opened_by, calls)
        permits == IF Len(prompts) < 2 THEN Len(prompts) ELSE 2
    IN  /\ session' = "open"
        /\ session_id' = s.id
        /\ opened_by' = s.opened_by
        /\ closed_by' = Append(closed_by, 0)
        /\ tasks' = [i \in 1..Len(prompts) |->
                        IF i <= permits THEN NewTask(prompts[i])
                        ELSE [NewTask(prompts[i]) EXCEPT !.st = "queued"]]
        /\ completion' = <<>>
        /\ sent' = sent \o [i \in 1..permits |->
                                Request("async", prompts[i], s.id)]

\* Faulty variant of the fan-out: every request is posted a second time.
Dispatch_resend(prompts) ==
    LET s == aenter(session_id, opened_by, calls)
        posted == [i \in 1..Len(prompts) |-> Request("async", prompts[i], s.id)]
    IN  /\ session' = "open"
        /\ session_id' = s.id
        /\ opened_by' = s.opened_by
        /\ closed_by' = Append(closed_by, 0)
        /\ tasks' = [i \in 1..Len(prompts) |-> NewTask(prompts[i])]
        /\ completion' = <<>>
        /\ sent' = sent \o posted \o posted

\* _process_chunks_async up to the await of asyncio.gather: __aenter__ opens
\* the session, generate_multiple_async creates one generate_async coroutine
\* per prompt, and every coroutine posts its request before any of them can
\* finish.
Dispatch(prompts) ==
    LET s == aenter(session_id, opened_by, calls)
    IN  /\ session' = "open"
        /\ session_id' = s.id
        /\ opened_by' = s.opened_by
        /\ closed_by' = Append(closed_by, 0)
        /\ tasks' = [i \in 1..Len(prompts) |-> NewTask(prompts[i])]
        /\ completion' = <<>>
        /\ sent' = sent \o [i \in 1..Len(prompts) |->
                                Request("async", prompts[i], s.id)]

\* summarize_chunks up to its return or up to asyncio.run
SummarizeChunks ==
    /\ pc = "summarize_chunks"
    /\ IF summarize_chunks_skips(state)
       THEN /\ pc' = "create_final_summary"
            /\ UNCHANGED <<state, session, tasks, completion, sent, session_id,
                           opened_by, closed_by>>
       ELSE IF is_single_chunk(Get(state.chunks))
       THEN /\ state' = [state EXCEPT !.chunk_summaries =
                            Some(<<Get(state.chunks)[1].content>>)]
            /\ pc' = "create_final_summary"
            /\ UNCHANGED <<session, tasks, completion, sent, session_id, opened_by,
                           closed_by>>
       ELSE /\ Dispatch(chunk_prompts(Get(state.chunks)))
            /\ pc' = "gather"
            /\ UNCHANGED state
    /\ UNCHANGED <<impl, chunker, text, locals, raised, result, calls, parsed,
                   health, log>>
    /\ incoming' = state
    /\ UNCHANGED threads
    /\ UNCHANGED <<temperature, requests>>
    /\ UNCHANGED graph_run

\* the backend answers the request of task i, or the request fails
TaskDone(i, outcome) ==
    /\ pc = "gather"
    /\ i \in 1..Len(tasks)
    /\ tasks[i].st = "inflight"
    /\ tasks' = [tasks EXCEPT ![i] = generate_async(@, outcome)]
    /\ completion' = Append(completion, i)
    /\ log' = Keep(log, "async", outcome)
    /\ UNCHANGED <<impl, chunker, pc, text, state, locals, session, sent, raised,
                   result, calls, session_id, opened_by, parsed, health>>
    /\ UNCHANGED incoming
    /\ UNCHANGED <<closed_by, threads>>
    /\ UNCHANGED <<temperature, requests>>
    /\ UNCHANGED graph_run

\* the rest of summarize_chunks after asyncio.run returned the summaries
graph_chunks_summarized(st, chunk_summaries) ==
    IF IsNone(st.processing_stats)
    THEN [raises |-> TRUE,
          exc |-> Exc("TypeError", "'NoneType' object does not support item assignment"),
          state |-> st]
    ELSE [raises |-> FALSE, exc |-> NoExc,
          state |-> [st EXCEPT
              !.chunk_summaries = Some(chunk_summaries),
              !.processing_stats =
                  Some([chunks_summarized |-> Len(chunk_summaries)] @@ Get(@))]]

\* asyncio.gather returned: _process_chunks_async strips the contents,
\* __aexit__ closes the session, and the caller goes on.
ProcessChunksReturn ==
    /\ pc = "gather"
    /\ LET g == gather(tasks, completion)
           chunk_summaries == stripped_contents(g.value)
       IN  /\ g.status = "return"
           /\ IF impl = "graph"
              THEN /\ NodeEnds(graph_chunks_summarized(state, chunk_summaries),
                               "Error summarizing chunks: ", "create_final_summary")
                   /\ incoming' = updated_in_place(
                          state, graph_chunks_summarized(state, chunk_summaries))
                   /\ UNCHANGED locals
              ELSE /\ locals' = [locals EXCEPT !.chunk_summaries = chunk_summaries]
                   /\ pc' = "simple_reduce"
                   /\ UNCHANGED <<state, raised, incoming>>
    /\ session' = aexit(session)
    /\ closed_by' = close_session(closed_by, session_id, opened_by, calls)
    /\ UNCHANGED <<impl, chunker, text, tasks, completion, sent, result>>
    /\ UNCHANGED <<calls, session_id, opened_by, parsed, health, log>>
    /\ UNCHANGED threads
    /\ UNCHANGED <<temperature, requests>>
    /\ UNCHANGED graph_run

\* How SimpleTranscriptSummarizer.summarize_text ends when exception e is
\* raised inside its try block.
SimpleRaises(e) ==
    /\ raised' = Some(e)
    /\ IF except_Exception(e)
       THEN /\ result' = Some(simple_except_result(text, e))
            /\ pc' = "done"
       ELSE /\ result' = result
            /\ pc' = "raised"

\* Faulty variant of the teardown of asyncio.run: pending tasks are left alone.
cancel_all_tasks_none(ts) == ts

\* asyncio.run, when its main coroutine has raised: every task of the loop
\* that has not finished is cancelled before the exception is re-raised.
cancel_all_tasks(ts) ==
    [i \in 1..Len(ts) |->
        IF ts[i].st = "inflight" THEN [ts[i] EXCEPT !.st = "cancelled"] ELSE ts[i]]

\* asyncio.gather raised: the exception leaves _process_chunks_async through
\* __aexit__, which closes the session; asyncio.run cancels the tasks still
\* pending before it re-raises to summarize_chunks / summarize_text.
ProcessChunksRaise ==
    /\ pc = "gather"
    /\ LET g == gather(tasks, completion)
       IN  /\ g.status = "raise"
           /\ IF impl = "graph"
              THEN /\ NodeEnds([raises |-> TRUE, exc |-> g.exc, state |-> state],
                               "Error summarizing chunks: ", "create_final_summary")
                   /\ UNCHANGED result
              ELSE /\ SimpleRaises(g.exc)
                   /\ UNCHANGED state
    /\ session' = aexit(session)
    /\ closed_by' = close_session(closed_by, session_id, opened_by, calls)
    /\ tasks' = cancel_all_tasks(tasks)
    /\ UNCHANGED <<impl, chunker, text, locals, completion, sent>>
    /\ UNCHANGED <<calls, session_id, opened_by, parsed, health, log>>
    /\ UNCHANGED incoming
    /\ UNCHANGED threads
    /\ UNCHANGED <<temperature, requests>>
    /\ UNCHANGED graph_run

CreateFinalSummary ==
    /\ pc = "create_final_summary"
    /\ IF create_final_summary_skips(state)
       THEN /\ pc' = "result"
            /\ incoming' = state
            /\ UNCHANGED <<state, sent, raised, log>>
       ELSE \E outcome \in Outcomes :
            /\ sent' = Append(sent,
                   Request("sync", final_prompt(Get(state.chunk_summaries)), 0))
            /\ log' = Keep(log, "sync", outcome)
            /\ NodeEnds(create_final_summary_try(state, outcome),
                        "Error creating final summary: ", "result")
            /\ incoming' = updated_in_place(
                   state, create_final_summary_try(state, outcome))
    /\ UNCHANGED <<impl, chunker, text, locals, session, tasks, completion, result,
                   calls, session_id, opened_by, parsed, health>>
    /\ UNCHANGED <<closed_by, threads>>
    /\ UNCHANGED <<temperature, requests>>
    /\ UNCHANGED graph_run

\* workflow.invoke returned: summarize_text builds the result object
SummarizeTextReturn ==
    /\ pc = "result"
    /\ LET r == summarize_text_result(state, text)
       IN  IF r.raises
           THEN /\ pc' = "raised"
                /\ raised' = Some(r.exc)
                /\ UNCHANGED result
           ELSE /\ pc' = "done"
                /\ result' = Some(r.value)
                /\ UNCHANGED raised
    /\ UNCHANGED <<impl, chunker, text, state, locals, session, tasks, completion,
                   sent>>
    /\ UNCHANGED <<calls, session_id, opened_by, parsed, health, log>>
    /\ UNCHANGED incoming
    /\ UNCHANGED <<closed_by, threads>>
    /\ UNCHANGED <<temperature, requests>>
    /\ UNCHANGED graph_run

\* SimpleTranscriptSummarizer.summarize_text, step 1: chunk the text
SimpleChunk ==
    /\ pc = "simple_chunk"
    /\ LET r == chunk_by_sentences(text, chunker.chunk_size, chunker.overlap_size)
       IN  IF r.raises
           THEN /\ SimpleRaises(r.exc)
                /\ UNCHANGED locals
           ELSE IF Len(r.chunks) = 0
           THEN /\ result' = Some(simple_no_chunks_result(text))
                /\ pc' = "done"
                /\ UNCHANGED <<locals, raised>>
           ELSE /\ locals' = [locals EXCEPT !.chunks = r.chunks]
                /\ pc' = IF is_single_chunk(r.chunks)
                         THEN "simple_single" ELSE "simple_dispatch"
                /\ UNCHANGED <<result, raised>>
    /\ UNCHANGED <<impl, chunker, text, state, session, tasks, completion, sent>>
    /\ UNCHANGED <<calls, session_id, opened_by, parsed, health, log>>
    /\ UNCHANGED incoming
    /\ UNCHANGED <<closed_by, threads>>
    /\ UNCHANGED <<temperature, requests>>
    /\ UNCHANGED graph_run

\* step 2, single chunk: one direct generate_sync, then the result
SimpleSingle ==
    /\ pc = "simple_single"
    /\ \E outcome \in Outcomes :
        LET r == generate_sync(outcome)
        IN  /\ sent' = Append(sent,
                   Request("sync", create_final_summary_prompt(locals.chunks[1].content), 0))
            /\ log' = Keep(log, "sync", outcome)
            /\ IF r.raises
               THEN SimpleRaises(r.exc)
               ELSE /\ result' = Some(simple_success_result(
                                          text, Strip(r.response.content), 1))
                    /\ pc' = "done"
                    /\ UNCHANGED raised
    /\ UNCHANGED <<impl, chunker, text, state, locals, session, tasks, completion,
                   calls, session_id, opened_by, parsed, health>>
    /\ UNCHANGED incoming
    /\ UNCHANGED <<closed_by, threads>>
    /\ UNCHANGED <<temperature, requests>>
    /\ UNCHANGED graph_run

\* step 2, several chunks: build the prompts and enter asyncio.run
SimpleDispatch ==
    /\ pc = "simple_dispatch"
    /\ Dispatch(chunk_prompts(locals.chunks))
    /\ pc' = "gather"
    /\ UNCHANGED <<impl, chunker, text, state, locals, raised, result, calls,
                   parsed, health, log>>
    /\ UNCHANGED incoming
    /\ UNCHANGED threads
    /\ UNCHANGED <<temperature, requests>>
    /\ UNCHANGED graph_run

\* step 2, several chunks: the reduction request, then the result
SimpleReduce ==
    /\ pc = "simple_reduce"
    /\ \E outcome \in Outcomes :
        LET r == generate_sync(outcome)
        IN  /\ sent' = Append(sent,
                   Request("sync", final_prompt(locals.chunk_summaries), 0))
            /\ log' = Keep(log, "sync", outcome)
            /\ IF r.raises
               THEN SimpleRaises(r.exc)
               ELSE /\ result' = Some(simple_success_result(
                                          text, Strip(r.response.content),
                                          Len(locals.chunks)))
                    /\ pc' = "done"
                    /\ UNCHANGED raised
    /\ UNCHANGED <<impl, chunker, text, state, locals, session, tasks, completion,
                   calls, session_id, opened_by, parsed, health>>
    /\ UNCHANGED incoming
    /\ UNCHANGED <<closed_by, threads>>
    /\ UNCHANGED <<temperature, requests>>
    /\ UNCHANGED graph_run

Next ==
    \/ \E t \in Texts : SummarizeText(t)
    \/ ParseInput
    \/ ChunkText
    \/ SummarizeChunks
    \/ \E i \in 1..Len(tasks), outcome \in Outcomes : TaskDone(i, outcome)
    \/ ProcessChunksReturn
    \/ ProcessChunksRaise
    \/ CreateFinalSummary
    \/ SummarizeTextReturn
    \/ SimpleChunk
    \/ SimpleSingle
    \/ SimpleDispatch
    \/ SimpleReduce

Spec == Init /\ [][Next]_vars

\* The workflow is a sequential program: a node that can run does run, and
\* the proviso of the termination property is that every request in flight
\* is eventually answered, fails or times out.
Fairness ==
    /\ WF_vars(ParseInput \/ ChunkText \/ SummarizeChunks \/ CreateFinalSummary
                  \/ SummarizeTextReturn)
    /\ WF_vars(SimpleChunk \/ SimpleSingle \/ SimpleDispatch \/ SimpleReduce)
    /\ WF_vars(ProcessChunksReturn \/ ProcessChunksRaise)
    /\ WF_vars(\E i \in 1..Len(tasks), outcome \in Outcomes : TaskDone(i, outcome))

(***************************************************************************)
(* The other entry points of an instance, and one instance serving         *)
(* several calls one after the other.                                      *)
(***************************************************************************)
\* summarize_vtt_content / summarize_vtt_file: parse, then hand the full
\* transcript to summarize_text; a parser exception ends the call in the
\* except clause.
vtt_wrapper_called(vtt) ==
    /\ pc = "idle"
    /\ LET p == parse_vtt(vtt)
       IN  /\ parsed' = Some(p)
           /\ IF ~p.raises
              THEN summarize_text_called(p.text)
              ELSE /\ result' = Some(vtt_except_result(p.exc))
                   /\ raised' = Some(p.exc)
                   /\ pc' = "done"
                   /\ calls' = calls + 1
                   /\ UNCHANGED <<impl, text, state, locals, session, tasks,
                                  completion, sent, session_id, opened_by, health,
                                  log, incoming, closed_by, threads, requests,
                                  graph_run>>

SummarizeVttContent(vtt) ==
    /\ vtt_wrapper_called(vtt)
    /\ UNCHANGED <<chunker, temperature>>

\* process_vtt_file of the web UI: the sliders' values replace the chunker
\* of the shared TranscriptSummarizer, then the file is summarized.
ProcessVttFile(u, vtt) ==
    /\ impl = "graph"
    /\ chunker' = UiChunker(u)
    /\ temperature' = u.temperature
    /\ vtt_wrapper_called(vtt)

CheckServiceHealth(tags1, tags2, show) ==
    /\ pc = "idle"
    /\ health' = Some(check_service_health(tags1, tags2, show))
    /\ pc' = "health_done"
    /\ UNCHANGED <<impl, chunker, text, state, locals, session, tasks, completion,
                   sent, raised, result, calls, session_id, opened_by, parsed, log>>
    /\ UNCHANGED incoming
    /\ UNCHANGED <<closed_by, threads>>
    /\ UNCHANGED <<temperature, requests>>
    /\ UNCHANGED graph_run

\* the call has returned and the caller comes back with another one: what
\* stays is the instance (its chunker, its self.session)
NextCall ==
    /\ pc \in {"done", "health_done"}
    /\ calls < MaxCalls
    /\ pc' = "idle"
    /\ text' = <<>>
    /\ state' = InitialState(<<>>)
    /\ locals' = InitialLocals
    /\ tasks' = <<>>
    /\ completion' = <<>>
    /\ sent' = <<>>
    /\ raised' = None
    /\ result' = None
    /\ parsed' = None
    /\ health' = None
    /\ log' = IF IsNone(log) THEN log ELSE Some(<<>>)
    /\ UNCHANGED <<impl, chunker, session, calls, session_id, opened_by>>
    /\ incoming' = InitialState(<<>>)
    /\ UNCHANGED <<closed_by, threads>>
    /\ UNCHANGED <<temperature, requests>>
    /\ UNCHANGED graph_run

InitApp ==
    /\ impl \in {"graph", "simple"}
    /\ chunker \in {[chunk_size |-> c[1], overlap_size |-> c[2]] : c \in ChunkerSettings}
    /\ pc = "idle"
    /\ text = <<>>
    /\ state = InitialState(<<>>)
    /\ locals = InitialLocals
    /\ session = "None"
    /\ tasks = <<>>
    /\ completion = <<>>
    /\ sent = <<>>
    /\ raised = None
    /\ result = None
    /\ calls = 0
    /\ session_id = 0
    /\ opened_by = <<>>
    /\ parsed = None
    /\ health = None
    /\ log = Some(<<>>)
    /\ incoming = InitialState(<<>>)
    /\ closed_by = <<>>
    /\ threads = [c \in Threads |-> IdleThread]
    /\ temperature = DefaultTemperature
    /\ requests = [r \in Threads |-> IdleRequest]
    /\ graph_run = None

NextApp ==
    \/ \E t \in Transcripts : SummarizeText(t)
    \/ \E vtt \in VttInputs : SummarizeVttContent(vtt)
    \/ \E u \in UiInputs, vtt \in VttInputs : ProcessVttFile(u, vtt)
    \/ \E tags1 \in TagsReplies, tags2 \in TagsReplies, show \in ShowReplies :
          CheckServiceHealth(tags1, tags2, show)
    \/ NextCall
    \/ ParseInput
    \/ ChunkText
    \/ SummarizeChunks
    \/ \E i \in 1..Len(tasks), outcome \in Outcomes : TaskDone(i, outcome)
    \/ ProcessChunksReturn
    \/ ProcessChunksRaise
    \/ CreateFinalSummary
    \/ SummarizeTextReturn
    \/ SimpleChunk
    \/ SimpleSingle
    \/ SimpleDispatch
    \/ SimpleReduce

\* one instance, several calls in a row, the backend's answers kept
SpecApp == InitApp /\ [][NextApp]_vars

FairSpecApp == SpecApp /\ Fairness

(***************************************************************************)
(* Concurrent calls.  The web UI builds one TranscriptSummarizer and runs  *)
(* its handler in worker threads, so two summarize_text calls can be       *)
(* inside _process_chunks_async at once, each under its own asyncio.run    *)
(* and event loop, both reading and writing the one OllamaService.session. *)
(* Only the fan-out of each call is modelled; a thread can be preempted    *)
(* between any two of its steps.                                           *)
(***************************************************************************)
\* the chunk prompts summarize_chunks builds for transcript t
ThreadPrompts(t) ==
    LET r == chunk_by_sentences(t, chunker.chunk_size, chunker.overlap_size)
    IN  IF r.raises THEN <<>> ELSE chunk_prompts(r.chunks)

\* a generate_async coroutine of a thread: where it stands, the session its
\* self.session.post(...) was made on (0 before), and whether that session
\* was open then
ThreadTask(st, sid, open) == [st |-> st, session |-> sid, open |-> open]

\* thread c enters `async with self.ollama_service`: __aenter__ creates a
\* session and stores it in self.session, then generate_multiple_async
\* creates the coroutines
ThreadEnter(c, t) ==
    /\ threads[c].pc = "idle"
    /\ Len(ThreadPrompts(t)) >= 2
    /\ LET s == aenter(session_id, opened_by, c)
       IN  /\ session_id' = s.id
           /\ opened_by' = s.opened_by
    /\ closed_by' = Append(closed_by, 0)
    /\ session' = "open"
    /\ threads' = [threads EXCEPT ![c] =
           [pc |-> "gather", prompts |-> ThreadPrompts(t),
            tasks |-> [k \in 1..Len(ThreadPrompts(t)) |->
                          ThreadTask("created", 0, FALSE)]]]
    /\ UNCHANGED <<impl, chunker, pc, text, state, locals, tasks, completion,
                   sent, raised, result, calls, parsed, health, log, incoming>>
    /\ UNCHANGED <<temperature, requests>>
    /\ UNCHANGED graph_run

\* coroutine k of thread c reaches `self.session.post(url, json=payload)`
\* (the event loop starts the coroutines in the order of the prompts):
\* it posts on whatever self.session refers to at that moment.  A closed
\* session raises RuntimeError("Session is closed"); a session created
\* under the other thread's event loop may carry the request or raise
\* (accepted), aiohttp leaves that undefined.
ThreadPost(c, k, accepted) ==
    /\ threads[c].pc = "gather"
    /\ k \in 1..Len(threads[c].tasks)
    /\ threads[c].tasks[k].st = "created"
    /\ \A j \in 1..(k - 1) : threads[c].tasks[j].st # "created"
    /\ LET open == closed_by[session_id] = 0
           own  == opened_by[session_id] = c
           out  == open /\ (own \/ accepted)
       IN  /\ (~open \/ own) => accepted
           /\ threads' = [threads EXCEPT ![c].tasks[k] =
                  ThreadTask(IF out THEN "inflight" ELSE "failed", session_id, open)]
    /\ UNCHANGED <<impl, chunker, pc, text, state, locals, session, tasks,
                   completion, sent, raised, result, calls, session_id, opened_by,
                   parsed, health, log, incoming, closed_by>>
    /\ UNCHANGED <<temperature, requests>>
    /\ UNCHANGED graph_run

\* the request of coroutine k is answered or fails; once its session is
\* closed the connection is gone and it can only fail
ThreadAnswer(c, k, ok) ==
    /\ threads[c].pc = "gather"
    /\ k \in 1..Len(threads[c].tasks)
    /\ threads[c].tasks[k].st = "inflight"
    /\ ok => closed_by[threads[c].tasks[k].session] = 0
    /\ threads' = [threads EXCEPT ![c].tasks[k].st = IF ok THEN "done" ELSE "failed"]
    /\ UNCHANGED <<impl, chunker, pc, text, state, locals, session, tasks,
                   completion, sent, raised, result, calls, session_id, opened_by,
                   parsed, health, log, incoming, closed_by>>
    /\ UNCHANGED <<temperature, requests>>
    /\ UNCHANGED graph_run

\* asyncio.gather of thread c returned or raised (every coroutine has made
\* its post by then): __aexit__ closes the session self.session refers to
ThreadExit(c) ==
    /\ threads[c].pc = "gather"
    /\ \A k \in 1..Len(threads[c].tasks) : threads[c].tasks[k].st # "created"
    /\ \/ \A k \in 1..Len(threads[c].tasks) : threads[c].tasks[k].st = "done"
       \/ \E k \in 1..Len(threads[c].tasks) : threads[c].tasks[k].st = "failed"
    /\ closed_by' = close_session(closed_by, session_id, opened_by, c)
    /\ session' = aexit(session)
    /\ threads' = [threads EXCEPT ![c].pc = "exited"]
    /\ UNCHANGED <<impl, chunker, pc, text, state, locals, tasks, completion,
                   sent, raised, result, calls, session_id, opened_by, parsed,
                   health, log, incoming>>
    /\ UNCHANGED <<temperature, requests>>
    /\ UNCHANGED graph_run

\* the shared instance of the web UI with its default chunker
InitShared ==
    /\ InitApp
    /\ impl = "graph"
    /\ chunker = [chunk_size |-> 2, overlap_size |-> 0]

NextShared ==
    \/ \E c \in Threads, t \in Transcripts : ThreadEnter(c, t)
    \/ \E c \in Threads, k \in 1..MaxTextLen, accepted \in BOOLEAN : ThreadPost(c, k, accepted)
    \/ \E c \in Threads, k \in 1..MaxTextLen, ok \in BOOLEAN : ThreadAnswer(c, k, ok)
    \/ \E c \in Threads : ThreadExit(c)

SpecShared == InitShared /\ [][NextShared]_vars

(***************************************************************************)
(* Concurrent requests of the web UI.  process_vtt_file writes the         *)
(* request's settings into the shared summarizer (its config and its       *)
(* chunker) and then calls it; the stages read self.chunker and            *)
(* self.config.temperature when they run.  Each request is followed        *)
(* through the places where it writes or reads a setting; a thread can be  *)
(* preempted between any two of them.                                      *)
(***************************************************************************)
\* the other variables of the model, which these requests leave alone
call_vars ==
    <<impl, pc, text, state, locals, session, tasks, completion, sent, raised,
      result, calls, session_id, opened_by, parsed, health, log, incoming,
      closed_by, threads, graph_run>>

\* process_vtt_file up to the call of summarize_vtt_file: the settings of
\* request r are stored in summarizer.config and a chunker is built from them
UiConfigure(r, u, t) ==
    /\ requests[r].pc = "idle"
    /\ chunker' = UiChunker(u)
    /\ temperature' = u.temperature
    /\ requests' = [requests EXCEPT ![r] =
           [IdleRequest EXCEPT !.pc = "configured", !.args = u, !.transcript = t]]
    /\ UNCHANGED call_vars

\* parse_input and chunk_text of request r: the text is chunked by the
\* chunker self.chunker refers to at that moment
UiChunk(r) ==
    /\ requests[r].pc = "configured"
    /\ LET q == requests[r]
           chunked == chunk_by_sentences(q.transcript, chunker.chunk_size,
                                         chunker.overlap_size)
       IN  IF Truthy(parse_input(InitialState(q.transcript)).error)
           THEN requests' = [requests EXCEPT ![r].pc = "returned"]
           ELSE requests' = [requests EXCEPT
                   ![r].chunker_used = <<chunker>>,
                   ![r].pc = IF chunked.raises \/ Len(chunked.chunks) = 0
                             THEN "returned"
                             ELSE IF is_single_chunk(chunked.chunks)
                             THEN "reduce"
                             ELSE "fan_out"]
    /\ UNCHANGED <<chunker, temperature>>
    /\ UNCHANGED call_vars

\* _process_chunks_async of request r: the chunk requests carry
\* self.config.temperature as it is at that moment; they are all answered
\* (ok) or one of them fails
UiFanOut(r, ok) ==
    /\ requests[r].pc = "fan_out"
    /\ requests' = [requests EXCEPT
           ![r].temperatures = Append(@, temperature),
           ![r].pc = IF ok THEN "reduce" ELSE "returned"]
    /\ UNCHANGED <<chunker, temperature>>
    /\ UNCHANGED call_vars

\* create_final_summary of request r: the reduction request carries
\* self.config.temperature as it is at that moment
UiReduce(r) ==
    /\ requests[r].pc = "reduce"
    /\ requests' = [requests EXCEPT
           ![r].temperatures = Append(@, temperature),
           ![r].pc = "returned"]
    /\ UNCHANGED <<chunker, temperature>>
    /\ UNCHANGED call_vars

NextUi ==
    \/ \E r \in Threads, u \in UiInputs, t \in Transcripts : UiConfigure(r, u, t)
    \/ \E r \in Threads : UiChunk(r)
    \/ \E r \in Threads, ok \in BOOLEAN : UiFanOut(r, ok)
    \/ \E r \in Threads : UiReduce(r)

SpecUi == InitShared /\ [][NextUi]_vars

(***************************************************************************)
(* The asynchronous interface of OllamaService used on its own: a client   *)
(* enters and leaves the async context and calls generate_async and        *)
(* generate_multiple_async in any order, inside the context or outside.    *)
(***************************************************************************)
\* raise Exception("Session not initialized. Use async context manager.")
SessionNotInitialized ==
    Exc("Exception", "Session not initialized. Use async context manager.")

\* what aiohttp raises when a request is made on a closed ClientSession
SessionIsClosed == Exc("RuntimeError", "Session is closed")

\* `if not self.session`: true only while self.session is None; a
\* ClientSession object is truthy, closed or not
session_missing(status) == status = "None"

\* the prompts a client may pass
ServicePrompts ==
    {create_chunk_summary_prompt(t, 1, 1) : t \in Transcripts \ {<<>>}}

\* the variables the service interface leaves alone
client_vars ==
    <<impl, chunker, pc, text, state, locals, tasks, completion, result, calls,
      parsed, health, log, incoming, threads, temperature, requests, graph_run>>

\* async with service: __aenter__
ServiceEnter ==
    /\ session # "open"
    /\ Len(opened_by) < MaxCalls
    /\ LET s == aenter(session_id, opened_by, Len(opened_by) + 1)
       IN  /\ session_id' = s.id
           /\ opened_by' = s.opened_by
    /\ closed_by' = Append(closed_by, 0)
    /\ session' = "open"
    /\ UNCHANGED <<sent, raised>>
    /\ UNCHANGED client_vars

\* the end of the async with block: __aexit__
ServiceExit ==
    /\ session = "open"
    /\ session' = aexit(session)
    /\ closed_by' = close_session(closed_by, session_id, opened_by, opened_by[session_id])
    /\ UNCHANGED <<session_id, opened_by, sent, raised>>
    /\ UNCHANGED client_vars

\* generate_async(prompt): the guard, then the post on self.session, then
\* the backend's answer; raised holds what the call raised, if anything
ServiceGenerate(prompt, outcome) ==
    /\ Len(sent) < MaxRequests
    /\ IF session_missing(session)
       THEN /\ raised' = Some(SessionNotInitialized)
            /\ UNCHANGED sent
       ELSE IF session = "closed"
       THEN /\ raised' = Some(SessionIsClosed)
            /\ UNCHANGED sent
       ELSE LET task == generate_async(NewTask(prompt), outcome)
            IN  /\ sent' = Append(sent, Request("async", prompt, session_id))
                /\ raised' = IF task.st = "failed" THEN Some(task.exc) ELSE None
    /\ UNCHANGED <<session, session_id, opened_by, closed_by>>
    /\ UNCHANGED client_vars

\* generate_multiple_async(prompts): the guard, then one generate_async per
\* prompt under asyncio.gather; the requests are all answered or the
\* first failure (outcome) is raised
ServiceGenerateMultiple(prompts, outcome) ==
    /\ Len(sent) + Len(prompts) <= MaxRequests
    /\ IF session_missing(session)
       THEN /\ raised' = Some(SessionNotInitialized)
            /\ UNCHANGED sent
       ELSE IF session = "closed"
       THEN /\ raised' = Some(SessionIsClosed)
            /\ UNCHANGED sent
       ELSE LET task == generate_async(NewTask(prompts[1]), outcome)
            IN  /\ sent' = sent \o [i \in 1..Len(prompts) |->
                                        Request("async", prompts[i], session_id)]
                /\ raised' = IF task.st = "failed" THEN Some(task.exc) ELSE None
    /\ UNCHANGED <<session, session_id, opened_by, closed_by>>
    /\ UNCHANGED client_vars

\* some call of generate_async or generate_multiple_async is made
GenerateCalled ==
    \/ \E p \in ServicePrompts, outcome \in Outcomes : ServiceGenerate(p, outcome)
    \/ \E p \in ServicePrompts, q \in ServicePrompts, outcome \in Outcomes :
          ServiceGenerateMultiple(<<p, q>>, outcome)

NextService ==
    \/ ServiceEnter
    \/ ServiceExit
    \/ \E p \in ServicePrompts, outcome \in Outcomes : ServiceGenerate(p, outcome)
    \/ \E p \in ServicePrompts, q \in ServicePrompts, outcome \in Outcomes :
          ServiceGenerateMultiple(<<p, q>>, outcome)

SpecService == InitShared /\ [][NextService]_vars

(***************************************************************************)
(* The two summarizers on one input.  TranscriptSummarizer summarizes a    *)
(* text; what it sent, what the backend answered and what it returned is   *)
(* kept; then a SimpleTranscriptSummarizer built from the same             *)
(* configuration (with an OllamaService of its own) summarizes the same    *)
(* text.                                                                   *)
(***************************************************************************)
\* what is kept of the finished run of TranscriptSummarizer
RunRecord ==
    [sent |-> sent, result |-> Get(result),
     chunks |-> IF IsNone(state.chunks) THEN <<>> ELSE Get(state.chunks),
     tasks |-> tasks, completion |-> completion, answers |-> Get(log)]

\* SimpleTranscriptSummarizer(config).summarize_text(text), for the text the
\* first run was given
SimpleAfterGraph ==
    /\ impl = "graph"
    /\ pc = "done"
    /\ IsNone(graph_run)
    /\ graph_run' = Some(RunRecord)
    /\ impl' = "simple"
    /\ pc' = "simple_chunk"
    /\ calls' = calls + 1
    /\ state' = InitialState(<<>>)
    /\ incoming' = InitialState(<<>>)
    /\ locals' = InitialLocals
    /\ session' = "None"
    /\ session_id' = 0
    /\ tasks' = <<>>
    /\ completion' = <<>>
    /\ sent' = <<>>
    /\ raised' = None
    /\ result' = None
    /\ log' = Some(<<>>)
    /\ UNCHANGED <<chunker, text, opened_by, closed_by, parsed, health, threads,
                   temperature, requests>>

InitPair ==
    /\ InitApp
    /\ impl = "graph"

\* sequence a is the beginning of sequence b
IsPrefix(a, b) == Len(a) <= Len(b) /\ \A i \in 1..Len(a) : a[i] = b[i]

\* the backend behaves in the second run as it did in the first: its
\* answers so far, and the order in which the chunk requests were answered,
\* are the beginning of what the first run met
Replays ==
    \/ IsNone(graph_run)
    \/ /\ IsPrefix(Get(log), Get(graph_run).answers)
       /\ IsPrefix(completion, Get(graph_run).completion)

NextPair ==
    \/ \E t \in Transcripts : SummarizeText(t)
    \/ ParseInput
    \/ ChunkText
    \/ SummarizeChunks
    \/ \E i \in 1..Len(tasks), outcome \in Outcomes : TaskDone(i, outcome) /\ Replays'
    \/ ProcessChunksReturn
    \/ ProcessChunksRaise
    \/ CreateFinalSummary
    \/ SummarizeTextReturn
    \/ SimpleAfterGraph
    \/ SimpleChunk
    \/ SimpleSingle /\ Replays'
    \/ SimpleDispatch
    \/ SimpleReduce /\ Replays'

SpecPair == InitPair /\ [][NextPair]_vars

(***************************************************************************)
(* Vocabulary of the properties.                                           *)
(***************************************************************************)
\* summarize_text has returned a result
Returned == pc = "done"

\* the returned result
Res == Get(result)

\* the chunk list the chunker returned to this call (empty before that)
Chunks ==
    IF impl = "graph"
    THEN IF IsNone(state.chunks) THEN <<>> ELSE Get(state.chunks)
    ELSE locals.chunks

\* the chunk summaries the call has assembled (empty before that)
Summaries ==
    IF impl = "graph"
    THEN IF IsNone(state.chunk_summaries) THEN <<>> ELSE Get(state.chunk_summaries)
    ELSE locals.chunk_summaries

\* the requests of one kind that reached the backend
SentVia(api) == SelectSeq(sent, LAMBDA r : r.api = api)

\* C1: when the chunker yields exactly one chunk, the call never has more
\* than one generation request behind it, and when it returns it has issued
\* exactly one; this is so for both orchestrators.
C1_SingleChunkOneRequest ==
    Len(Chunks) = 1 =>
        /\ Len(sent) <= 1
        /\ Returned => Len(sent) = 1

C1_Witness ==
    /\ impl = "graph"
    /\ Returned
    /\ Len(Chunks) = 1
    /\ IsNone(Res.error)
    /\ Len(sent) = 1

\* C2: when the chunker yields N >= 2 chunks and every request succeeds, the
\* call issues exactly N chunk-summarization requests, the i-th built from
\* the i-th chunk, followed by exactly one reduction request: N + 1 in all.
C2_MultiChunkRequests ==
    (/\ Returned
     /\ Len(Chunks) >= 2
     /\ IsNone(raised)) =>
        /\ Len(sent) = Len(Chunks) + 1
        /\ \A i \in 1..Len(Chunks) :
            /\ sent[i].api = "async"
            /\ sent[i].prompt.template = "chunk_summary"
            /\ sent[i].prompt.text = Chunks[i].content
        /\ sent[Len(Chunks) + 1].api = "sync"
        /\ sent[Len(Chunks) + 1].prompt.template = "final_summary"

C2_Witness ==
    /\ Returned
    /\ Len(Chunks) = 3
    /\ IsNone(raised)
    /\ IsNone(Res.error)
    /\ Len(sent) = 4

\* C3: whatever the order in which the concurrent chunk requests complete,
\* the i-th assembled chunk summary is the stripped response content of the
\* request built from the i-th chunk, and the reduction prompt holds the
\* summaries joined in chunk order.
C3_OrderPreserved ==
    (Len(tasks) >= 2 /\ Summaries # <<>>) =>
        /\ Len(Summaries) = Len(Chunks)
        /\ \A i \in 1..Len(Chunks) :
            /\ tasks[i].prompt =
                  create_chunk_summary_prompt(Chunks[i].content, i, Len(Chunks))
            /\ Summaries[i] = Strip(tasks[i].response.content)
        /\ \A k \in 1..Len(sent) :
            sent[k].api = "sync" =>
                sent[k].prompt.text =
                    Join([i \in 1..Len(tasks) |-> Strip(tasks[i].response.content)])

\* three chunks answered in reverse order, with different answers
C3_Witness ==
    /\ Returned
    /\ Len(Chunks) = 3
    /\ completion = <<3, 2, 1>>
    /\ Len(Summaries) = 3
    /\ Summaries[1] # Summaries[3]
    /\ Len(SentVia("sync")) = 1

\* C4: once an error is set (in the workflow state, or by the exception the
\* simple variant catches), the error stays what it is, no further request
\* reaches the backend, and the returned result carries that error with an
\* empty summary.
C4_ErrorShortCircuit ==
    [][/\ ~IsNone(state.error) =>
            /\ state'.error = state.error
            /\ sent' = sent
       /\ ~IsNone(raised) => sent' = sent
       /\ (pc' = "done" /\ impl = "graph" /\ ~IsNone(state'.error)) =>
            /\ result'[1].error = state'.error
            /\ result'[1].summary = <<>>
       /\ (pc' = "done" /\ impl = "simple" /\ ~IsNone(raised')) =>
            /\ result'[1].error = Some(raised'[1].msg)
            /\ result'[1].summary = <<>>]_vars

\* a chunk request failed in a three-chunk run and the run returned
C4_Witness ==
    /\ impl = "graph"
    /\ Returned
    /\ Len(Chunks) = 3
    /\ ~IsNone(state.error)
    /\ Res.error = state.error
    /\ Len(sent) = 3

\* C5: no exception leaves summarize_text: a chunker exception, a failed
\* chunk request and a failed reduction request each end in a returned
\* result whose error is set.
C5_NeverRaises ==
    /\ pc # "raised"
    /\ (Returned /\ ~IsNone(raised)) => ~IsNone(Res.error)

\* a reduction request timed out after three chunk requests succeeded
C5_Witness ==
    /\ Returned
    /\ Len(Chunks) = 3
    /\ Len(sent) = 4
    /\ ~IsNone(raised)
    /\ ~IsNone(Res.error)

\* the chunker was constructed with a positive size and a smaller overlap
ValidSettings ==
    /\ chunker.chunk_size > 0
    /\ chunker.overlap_size >= 0
    /\ chunker.overlap_size < chunker.chunk_size

\* C6: for empty or whitespace-only text the result has no error, the
\* summary "No content to summarize." and chunks_processed = 0 (stated for
\* a validly configured chunker, where nothing else can fail).
C6_EmptyInputResult ==
    (Returned /\ ValidSettings /\ Strip(text) = <<>>) =>
        /\ IsNone(Res.error)
        /\ Res.summary = NoContentMarker
        /\ Res.chunks_processed = 0

\* C7: no returned result has both an error and a non-empty summary.
C7_ErrorImpliesEmptySummary ==
    (Returned /\ ~IsNone(Res.error)) => Res.summary = <<>>

\* C8: a result without error for a text of positive length has a non-empty
\* summary, whatever the backend answered.
C8_SuccessHasSummary ==
    (Returned /\ IsNone(Res.error) /\ Res.original_length > 0) => Res.summary # <<>>

\* C9: in a successful result chunks_processed is the number of chunks the
\* text produced (1 for a single chunk, N for N >= 2), in both orchestrators.
C9_ChunksProcessed ==
    (Returned /\ IsNone(Res.error) /\ Len(Chunks) >= 1) =>
        Res.chunks_processed = Len(Chunks)

\* C10: if any of the concurrently dispatched requests fails, no list of
\* chunk summaries is stored and no reduction request is ever built.
C10_AllOrNothing ==
    (\E i \in 1..Len(tasks) : tasks[i].st = "failed") =>
        /\ Summaries = <<>>
        /\ SentVia("sync") = <<>>
        /\ Returned => ~IsNone(Res.error)

\* one request failed after another had succeeded, and the run returned
C10_Witness ==
    /\ Returned
    /\ Len(tasks) = 3
    /\ tasks[1].st = "done"
    /\ tasks[2].st = "failed"
    /\ completion = <<1, 2>>

\* C11: in a multi-chunk run the N chunk requests are issued together (the
\* backend has seen none of them or all N of them, one per chunk, before
\* anything else), and a reduction request exists only once every one of
\* the N has completed successfully: it never coexists with a chunk request
\* that is in flight, failed or cancelled.
C11_FanOutThenReduce ==
    Len(Chunks) >= 2 =>
        /\ Len(SentVia("async")) \in {0, Len(Chunks)}
        /\ Len(tasks) \in {0, Len(Chunks)}
        /\ Len(tasks) = Len(SentVia("async"))
        /\ \A k \in 1..Len(sent) :
            sent[k].api = "sync" =>
                /\ k = Len(Chunks) + 1
                /\ Len(tasks) = Len(Chunks)
                /\ \A i \in 1..Len(tasks) : tasks[i].st = "done"

\* the reduction request of a three-chunk run has been issued
C11_Witness ==
    /\ Len(Chunks) = 3
    /\ Len(sent) = 4
    /\ sent[4].api = "sync"
    /\ \A i \in 1..3 : tasks[i].st = "done"
    /\ completion = <<2, 3, 1>>

\* C13, as claimed: when one of the concurrent chunk requests has failed, a
\* sibling still in flight is not cancelled and keeps an open session until
\* it completes, fails or times out by itself.
C13_SiblingsRunToCompletion ==
    \A i \in 1..Len(tasks) :
        /\ tasks[i].st # "cancelled"
        /\ tasks[i].st = "inflight" => session = "open"

\* C13, amended: asyncio.gather by itself cancels nothing (a sibling may
\* still finish while the awaiter has not been resumed), but the failure
\* leaves the stage through __aexit__ and asyncio.run: from then on the
\* session is closed and no request is in flight, every sibling that had
\* not finished being cancelled.
C13_SiblingsTornDown ==
    \A i \in 1..Len(tasks) :
        /\ tasks[i].st = "inflight" => (pc = "gather" /\ session = "open")
        /\ tasks[i].st = "cancelled" =>
            /\ pc # "gather"
            /\ session = "closed"
            /\ \E j \in 1..Len(tasks) : tasks[j].st = "failed"

\* of three requests one completed, then one failed, and the third was
\* still in flight when the failure surfaced
C13_Witness ==
    /\ Returned
    /\ Len(tasks) = 3
    /\ tasks[1].st = "cancelled"
    /\ tasks[2].st = "failed"
    /\ tasks[3].st = "done"
    /\ session = "closed"

\* C14: in every returned result the compression ratio is the quotient
\* original_length / summary_length when summary_length > 0 (so that
\* ratio * summary_length = original_length) and 0 when summary_length = 0;
\* no result is built by dividing by zero.
C14_CompressionRatio ==
    Returned =>
        /\ Res.compression_ratio.den # 0
        /\ Res.summary_length > 0 =>
              Res.compression_ratio.num * Res.summary_length
                  = Res.original_length * Res.compression_ratio.den
        /\ Res.summary_length = 0 => Res.compression_ratio.num = 0

\* a four-character text in three chunks summarized to one character
C14_Witness ==
    /\ Returned
    /\ Len(Chunks) = 3
    /\ Res.original_length = 4
    /\ Res.summary_length = 1
    /\ Res.compression_ratio = Ratio(4, 1)

\* the call is past its chunking step
Chunked == pc \notin {"idle", "parse_input", "chunk_text", "simple_chunk"}

\* C20: for a text that is not empty or whitespace-only (and a validly
\* configured chunker) the chunk sequence handed to the summarization stage
\* is non-empty, and a text shorter than the maximum chunk size yields
\* exactly one chunk whose content is the whole text; the empty-chunk-list
\* branch (an empty list in the workflow state, the no-chunks result of the
\* simple variant) is reached only for empty or whitespace-only text.
C20_ChunksNonEmpty ==
    /\ (Chunked /\ ValidSettings /\ Strip(text) # <<>>) =>
            /\ Chunks # <<>>
            /\ Len(text) < chunker.chunk_size =>
                  /\ Len(Chunks) = 1
                  /\ Chunks[1].content = text
    /\ state.chunks = Some(<<>>) => Strip(text) = <<>>
    /\ (Returned /\ Res = simple_no_chunks_result(text)) => Strip(text) = <<>>

\* a two-character text ending in a blank, chunked with max size 3
C20_Witness ==
    /\ Returned
    /\ chunker.chunk_size = 3
    /\ text = <<"a", " ">>
    /\ Len(Chunks) = 1
    /\ Chunks[1].content = text
    /\ Len(sent) = 1

\* C12: every call that reaches the multi-chunk stage opens a session of its
\* own before the first chunk request: each chunk request of the call is
\* posted on a session this same call created (never one an earlier call
\* created), that session is open while a request is in flight, and it is
\* closed once the stage has ended, on success and on failure.
C12_SessionPerCall ==
    /\ \A k \in 1..Len(sent) :
        sent[k].api = "async" =>
            /\ sent[k].session = session_id
            /\ session_id \in 1..Len(opened_by)
            /\ opened_by[session_id] = calls
            /\ \A j \in 1..Len(opened_by) : j # session_id => opened_by[j] < calls
    /\ (\E i \in 1..Len(tasks) : tasks[i].st = "inflight") => session = "open"
    /\ (tasks # <<>> /\ pc # "gather") => session = "closed"

\* the second call of an instance whose first call had opened a session of
\* its own: a chunk request failed and the stage has ended
C12_Witness ==
    /\ calls = 2
    /\ opened_by = <<1, 2>>
    /\ Returned
    /\ Len(tasks) = 3
    /\ \E i \in 1..3 : tasks[i].st = "failed"
    /\ \A k \in 1..3 : sent[k].session = 2
    /\ session = "closed"

\* the backend's answers of this call, in the order they arrived
Answers == IF IsNone(log) THEN <<>> ELSE Get(log)

\* C15: generate_sync either returns a response or fails.  When the backend
\* answered with a parsed body the caller got the response (no exception,
\* and the returned summary is the stripped content); when the network
\* failed, the status was not a success, the request timed out or the body
\* could not be parsed, the caller got the exception and no response: no
\* summary is stored and the result carries the error.
C15_SyncFailsOrReturns ==
    \A k \in 1..Len(Answers) :
        Answers[k].api = "sync" =>
            LET o == Answers[k].outcome
            IN  IF o.ok
                THEN /\ IsNone(raised)
                     /\ Returned =>
                          /\ IsNone(Res.error)
                          /\ Res.summary = Strip(OllamaResponse(o.body).content)
                ELSE /\ raised = Some(SyncError(o.fail))
                     /\ state.final_summary = <<>>
                     /\ Returned =>
                          /\ Res.summary = <<>>
                          /\ Res.error # None

\* the reduction request of a three-chunk run got a body that is not JSON
C15_Witness ==
    /\ Returned
    /\ Len(Chunks) = 3
    /\ Len(Answers) = 4
    /\ Answers[4] = [api |-> "sync",
                     outcome |-> [ok |-> FALSE, body |-> NoBody, fail |-> "parse"]]
    /\ Res.summary = <<>>

\* the answer is a parsed body without the "response" field
LacksContent(a) == a.outcome.ok /\ ~a.outcome.body.has_response

\* C16: a parsed body without the content field is decoded as the content ""
\* by generate_async (the task is done, nothing is raised) and by
\* generate_sync (no exception; the summary is ""), and a run in which no
\* request failed ends in a result without error.
C16_MissingContentIsEmpty ==
    /\ \A k \in 1..Len(Answers) :
        LacksContent(Answers[k]) =>
            IF Answers[k].api = "async"
            THEN /\ k <= Len(completion)
                 /\ tasks[completion[k]].st = "done"
                 /\ tasks[completion[k]].response.content = <<>>
            ELSE /\ IsNone(raised)
                 /\ Returned => (Res.summary = <<>> /\ IsNone(Res.error))
    /\ (/\ Returned
        /\ Answers # <<>>
        /\ \A k \in 1..Len(Answers) : Answers[k].outcome.ok) => IsNone(Res.error)

\* three chunk requests and the reduction request were all answered with a
\* body that has no content field
C16_Witness ==
    /\ Returned
    /\ Len(Answers) = 4
    /\ \A k \in 1..4 : LacksContent(Answers[k])
    /\ Len(Summaries) = 3
    /\ IsNone(Res.error)

\* the map the health check returned
Health == Get(health)

C18_InvalidConfigRejected ==
    ~ValidSettings =>
        /\ sent = <<>>
        /\ tasks = <<>>
        /\ pc # "raised"
        /\ Returned => (Res.error # None /\ Res.summary = <<>>)

\* the second request of the UI, with overlap = chunk size, after a first
\* request that ran a fan-out under valid settings
C18_Witness ==
    /\ calls = 2
    /\ opened_by = <<1>>
    /\ chunker = [chunk_size |-> 2, overlap_size |-> 2]
    /\ parsed # None
    /\ text = <<".", "a", ".", "a">>
    /\ Returned
    /\ Res.error = Some("Error chunking text: overlap must be smaller than chunk size")
    /\ sent = <<>>

\* what the VTT parser did for this call
Parsed == Get(parsed)

\* C19: summarize_vtt_content / summarize_vtt_file hand the parser's full
\* transcript unchanged to summarize_text and return its result (the one
\* built for that transcript); when the parser raises, they return an error
\* result with an empty summary and zero lengths, raise nothing and send no
\* request.
C19_VttForwarding ==
    parsed # None =>
        IF Parsed.raises
        THEN /\ Returned
             /\ Res = SummarizationResult(<<>>, 0, 0, 0, Zero, Some(Parsed.exc.msg))
             /\ sent = <<>>
             /\ tasks = <<>>
        ELSE /\ text = Parsed.text
             /\ impl = "graph" => state.original_text = Parsed.text
             /\ pc # "raised"
             /\ Returned => Res.original_length = Len(Parsed.text)
             /\ (Returned /\ impl = "graph") =>
                   Res = summarize_text_result(state, Parsed.text).value

\* a transcript of three chunks came through the wrapper and was summarized
C19_Witness ==
    /\ parsed # None
    /\ ~Parsed.raises
    /\ Parsed.text = <<".", "a", ".", "a">>
    /\ Returned
    /\ Len(Chunks) = 3
    /\ IsNone(Res.error)
    /\ Res.original_length = 4

\* the sentences of a text, as pairs of offsets <<from, to>>
Sentences(t) ==
    LET ends == SentenceEnds(t) \cup {0}
    IN  {<<a, b>> \in ends \X ends :
            a < b /\ ~\E m \in ends : a < m /\ m < b}

\* the chunk contents joined, each without the characters it repeats from
\* the chunks before it
RECURSIVE WithoutOverlaps(_, _)
WithoutOverlaps(chunks, covered) ==
    IF chunks = <<>> THEN <<>>
    ELSE LET c == Head(chunks)
             skip == IF covered > c.start_offset THEN covered - c.start_offset ELSE 0
         IN  SubSeq(c.content, skip + 1, Len(c.content))
                 \o WithoutOverlaps(Tail(chunks), SetMax({covered, c.end_offset}))

\* C21: for a text that has content, a positive max_size and an overlap
\* below it, the chunk contents with the overlaps removed are the text, in
\* order; every sentence is whole in at least one chunk; and a sentence
\* longer than max_size is a chunk of its own, not truncated and not dropped.
C21_ChunkCoverage ==
    (Chunked /\ ValidSettings /\ Strip(text) # <<>>) =>
        /\ WithoutOverlaps(Chunks, 0) = text
        /\ \A c \in {Chunks[i] : i \in 1..Len(Chunks)} :
              c.content = SubSeq(text, c.start_offset + 1, c.end_offset)
        /\ \A se \in Sentences(text) :
            /\ \E i \in 1..Len(Chunks) :
                  Chunks[i].start_offset <= se[1] /\ se[2] <= Chunks[i].end_offset
            /\ se[2] - se[1] > chunker.chunk_size =>
                  \E i \in 1..Len(Chunks) :
                      Chunks[i].start_offset = se[1] /\ Chunks[i].end_offset = se[2]

\* "a.aa" with max size 3 and overlap 1: the second chunk repeats the "."
C21_Witness ==
    /\ Chunked
    /\ chunker = [chunk_size |-> 3, overlap_size |-> 1]
    /\ text = <<"a", ".", "a", "a">>
    /\ Len(Chunks) = 2
    /\ Chunks[2].content = <<".", "a", "a">>
    /\ WithoutOverlaps(Chunks, 0) = text

\* C22: in every chunk sequence the chunker produced, the index of the i-th
\* chunk (counting from 1) is i - 1, so the indices are 0..n-1 in strictly
\* increasing order, and start_offset never decreases from a chunk to the
\* next.
C22_ChunkOrdering ==
    /\ \A i \in 1..Len(Chunks) : Chunks[i].index = i - 1
    /\ \A i \in 1..(Len(Chunks) - 1) :
        /\ Chunks[i].index < Chunks[i + 1].index
        /\ Chunks[i].start_offset <= Chunks[i + 1].start_offset

\* a text cut into three chunks
C22_Witness ==
    /\ Chunked
    /\ Len(Chunks) = 3
    /\ Chunks[1].index = 0
    /\ Chunks[3].index = 2
    /\ Chunks[2].start_offset < Chunks[3].start_offset

\* the positions of a summarize_text call on the workflow variant
InWorkflow ==
    {"parse_input", "chunk_text", "summarize_chunks", "gather",
     "create_final_summary", "result"}

\* the position that follows each position of the workflow
StageAfter(p) ==
    CASE p = "parse_input" -> {"chunk_text"}
      [] p = "chunk_text" -> {"summarize_chunks"}
      [] p = "summarize_chunks" -> {"gather", "create_final_summary"}
      [] p = "gather" -> {"create_final_summary"}
      [] p = "create_final_summary" -> {"result"}
      [] p = "result" -> {"done"}
      [] OTHER -> {}

\* C23: a call on the workflow variant goes through parse_input, chunk_text,
\* summarize_chunks (with its wait for the chunk requests) and
\* create_final_summary in that order, each step of a stage leaving it for
\* the next one (none is run twice, none is re-entered), and, every request
\* in flight being answered sooner or later, it ends with a returned result.
C23_StraightLine ==
    /\ [][(impl = "graph" /\ pc \in InWorkflow) =>
            /\ pc' # pc => pc' \in StageAfter(pc)
            /\ pc' = pc => pc = "gather"]_vars
    /\ (pc = "parse_input") ~> (Returned /\ result # None)

\* the second call of a workflow instance, a three-chunk run, has returned
C23_Witness ==
    /\ impl = "graph"
    /\ calls = 2
    /\ Returned
    /\ Len(Chunks) = 3
    /\ Len(sent) = 4
    /\ result # None

\* C24: once the error of the workflow state is set, no later stage changes
\* the state record: chunks, chunk_summaries, final_summary,
\* processing_stats and error (and original_text) stay what they were when
\* the error was set, up to the end of the run.
C24_ErrorFreezesState ==
    [][(impl = "graph" /\ state.error # None) => state' = state]_vars

\* the empty-input error was set by the first stage and the run has
\* returned with the state of that moment
C24_Witness ==
    /\ impl = "graph"
    /\ Returned
    /\ text = <<" ">>
    /\ state = parse_input(InitialState(text))
    /\ state.error = Some("Empty input text")

\* C25: no workflow stage modifies a value held by the record it received:
\* once a stage has run, the record it was given, read through its
\* references (its processing_stats mapping in particular), is what it was
\* when the stage began.
C25_StagesDoNotMutate ==
    [][(impl = "graph" /\ pc \in InWorkflow /\ pc' # pc) => incoming' = state]_vars

\* a request of this call has failed, or the call has recorded an error
Failed ==
    \/ \E i \in 1..Len(tasks) : tasks[i].st = "failed"
    \/ raised # None
    \/ Truthy(state.error)
    \/ result # None /\ Res.error # None

\* C26: within one call every chunk prompt goes to the backend at most
\* once and the reduction prompt at most once, and once a request has
\* failed or an error is recorded no request is sent any more.
C26_NoRetry ==
    /\ [](/\ Len(SentVia("sync")) <= 1
          /\ \A i, j \in 1..Len(sent) :
                (/\ sent[i].api = "async" /\ sent[j].api = "async"
                 /\ sent[i].prompt.chunk_num = sent[j].prompt.chunk_num) => i = j)
    /\ [][Failed => sent' = sent]_vars

\* three chunk requests went out, one of them failed, and the call returned
\* without a fourth request
C26_Witness ==
    /\ Returned /\ Len(Chunks) = 3 /\ Len(sent) = 3
    /\ \E i \in 1..Len(tasks) : tasks[i].st = "failed"
    /\ Res.error # None

\* the messages of the exceptions a stage can meet
Causes ==
    {chunk_by_sentences(<<"a">>, c[1], c[2]).exc.msg : c \in ChunkerSettings}
        \cup {generate_sync(o).exc.msg : o \in Outcomes}
        \cup {generate_async(NewTask(<<>>), o).exc.msg : o \in Outcomes}

\* the prefix the failed stage of this call is to be named by: a chunk
\* request failed, or the reduction request was made, or neither
StagePrefix ==
    IF \E i \in 1..Len(tasks) : tasks[i].st = "failed"
    THEN "summarizing chunks failed: "
    ELSE IF SentVia("sync") # <<>>
    THEN "final summary failed: "
    ELSE "chunking failed: "

\* C27: the error of a run that failed in a stage is that stage's prefix
\* ("chunking failed: ", "summarizing chunks failed: ", "final summary
\* failed: ") followed by the cause, in both summarizers.
C27_ErrorNamesStage ==
    (/\ Returned /\ Res.error # None
     /\ Res.error \notin {Some("Empty input text"),
                          Some("No chunks created from input text")})
        => \E c \in Causes : Res.error = Some(StagePrefix \o c)

\* the number of chunk requests that were posted and not yet answered
InFlight == Cardinality({i \in 1..Len(tasks) : tasks[i].st = "inflight"})

\* the values of max_concurrent_requests up to its default
ConcurrencyLimits == 1..max_concurrent_requests

C29_ChunkPrompts ==
    pc = "gather" =>
        /\ Len(Chunks) >= 2
        /\ Len(tasks) = Len(Chunks)
        /\ \A k \in 0..(Len(Chunks) - 1) :
              LET p == tasks[k + 1].prompt
              IN  /\ p.template = "chunk_summary"
                  /\ p.text = Chunks[k + 1].content
                  /\ p.chunk_num = k + 1
                  /\ p.total_chunks = Len(Chunks)
                  /\ SentVia("async")[k + 1].prompt = p

\* the second call on an instance built three prompts, the last of them
\* for position 3 of 3
C29_Witness ==
    /\ calls = 2 /\ pc = "gather" /\ Len(Chunks) = 3
    /\ tasks[3].prompt.chunk_num = 3
    /\ tasks[3].prompt.total_chunks = 3
    /\ tasks[3].prompt.text = Chunks[3].content
    /\ tasks[1].prompt # tasks[3].prompt

\* C30: with two calls running concurrently on one instance, every chunk
\* request is posted on a session that is open, no session is closed by a
\* call other than the one that opened it, and when both calls are over
\* every session that was opened has been closed.
C30_SharedInstanceSessions ==
    /\ \A c \in Threads : \A k \in 1..Len(threads[c].tasks) :
          threads[c].tasks[k].session # 0 => threads[c].tasks[k].open
    /\ \A s \in 1..Len(closed_by) : closed_by[s] \in {0, opened_by[s]}
    /\ (\A c \in Threads : threads[c].pc = "exited") =>
          \A s \in 1..Len(closed_by) : closed_by[s] # 0

\* C31: a request of the web UI chunks its text with the chunk size and
\* overlap it was given and sends every backend request with the
\* temperature it was given, also when another request starts meanwhile.
C31_RequestSettings ==
    \A r \in Threads :
        /\ \A i \in 1..Len(requests[r].chunker_used) :
              requests[r].chunker_used[i] = UiChunker(requests[r].args)
        /\ \A i \in 1..Len(requests[r].temperatures) :
              requests[r].temperatures[i] = requests[r].args.temperature

\* C32: whenever no session is open on the client, before the context was
\* ever entered as well as after it was left, a call of generate_async or
\* generate_multiple_async raises the session-not-initialized error and
\* sends no request.
C32_NoSessionNoRequest ==
    [][(session # "open" /\ GenerateCalled) =>
          /\ raised' = Some(SessionNotInitialized)
          /\ sent' = sent]_vars

\* the prompts of a sequence of requests
PromptsOf(requested) == [i \in 1..Len(requested) |-> requested[i].prompt]

\* the run of SimpleTranscriptSummarizer has returned, and it had the same
\* chunk sequence and met the same backend behaviour as the run of
\* TranscriptSummarizer before it: the same answer to every chunk request,
\* in the same order, and the same answer to the reduction request
SameRunConditions ==
    /\ impl = "simple" /\ Returned /\ ~IsNone(graph_run)
    /\ Get(graph_run).chunks = Chunks
    /\ Get(graph_run).tasks = tasks
    /\ Get(graph_run).completion = completion
    /\ Get(graph_run).answers = Answers

\* C33: for the same chunk sequence and the same backend behaviour the two
\* summarizers send the same prompts in the same order and return results
\* that agree on summary, original_length, summary_length,
\* chunks_processed, compression_ratio and on whether error is set.
C33_SummarizersAgree ==
    SameRunConditions =>
        /\ PromptsOf(Get(graph_run).sent) = PromptsOf(sent)
        /\ Get(graph_run).result.summary = Res.summary
        /\ Get(graph_run).result.original_length = Res.original_length
        /\ Get(graph_run).result.summary_length = Res.summary_length
        /\ Get(graph_run).result.chunks_processed = Res.chunks_processed
        /\ Get(graph_run).result.compression_ratio = Res.compression_ratio
        /\ IsNone(Get(graph_run).result.error) = IsNone(Res.error)

\* C34: in every returned result summary_length is the length of the
\* summary and original_length is the length of the text given to
\* summarize_text, whether the call succeeded, had nothing to summarize or
\* failed.
C34_LengthsMatch ==
    Returned =>
        /\ Res.summary_length = Len(Res.summary)
        /\ Res.original_length = Len(text)

====
